---- MODULE Spec2Model ----
(***************************************************************************)
(* A model of pennywise: the expense ledger (core/calculations.py) and the *)
(* transaction categoriser (categorization/transaction_categories.py).     *)
(*                                                                         *)
(* Numbers.  Amounts and incomes are whole currency units (integers);      *)
(* quotients (income ratios, fair shares, balances) are exact rationals    *)
(* <<numerator, denominator>> in lowest terms.  Sums and differences of    *)
(* whole amounts of this size are exact in Python's binary64 floats; the   *)
(* rounding of its quotients and products is not modelled.                 *)
(***************************************************************************)
EXTENDS Integers, Sequences, FiniteSets, TLC

VARIABLES
    contribution,   \* the Contribution, with its two Persons
    outcome,        \* the last call made on the ledger and what it gave
    n_expenses,     \* add_expense calls that returned
    mappings,       \* the category mappings in use
    df,             \* the caller's DataFrame of transactions
    result,         \* the last call made to the categoriser and what it gave
    config_file,    \* the file at config_path: whether it exists, what it holds
    threads,        \* the add_expense call each concurrent caller is in
    discipline      \* whether the callers exclude one another

vars == <<contribution, outcome, n_expenses, mappings, df, result,
          config_file, threads, discipline>>

envVars == <<config_file, threads, discipline>>

catVars == <<mappings, df, result>>

ledgerVars == <<contribution, outcome, n_expenses>>

----------------------------------------------------------------------------
(* Bounds and input sets                                                   *)

\* add_expense calls that a run makes (successful ones)
MaxExpenses == 3

Categories == {"rent", "utilities"}

Amounts == {200, 1000}

Incomes == {0, 2000, 3000}

\* names a Person is constructed with; person_a is "Alice" and person_b any
\* of them (a ledger whose persons share a name can be constructed)
Names == {"Alice", "Bob"}

\* names a caller passes as paid_by / name
CallerNames == Names \cup {"Charlie"}

\* balances handed to _generate_summary directly, in thousandths: on both
\* sides of the 0.01 threshold and of zero, none halfway between two cents
SummaryBalances == {<<k, 1000>> : k \in {-1234, -10, -9, 9, 10, 12}}

\* longest description handed to categorize_transaction
MaxLen == 3

\* largest index handed to override_category
MaxIndex == 2

\* the characters of descriptions and keywords
Chars == {"a", "A", "n", "N"}

Keywords == {<<"a">>, <<"A", "n">>, <<"N">>}

\* a category's keyword list: up to two keywords
KeywordLists ==
    {<<>>} \cup {<<k>> : k \in Keywords} \cup {<<k1, k2>> : k1 \in Keywords, k2 \in Keywords}

\* a mapping declares "food" before "transport"
Mappings ==
    { <<[category |-> "food", keywords |-> k1],
        [category |-> "transport", keywords |-> k2]>> :
        k1 \in KeywordLists, k2 \in KeywordLists }

RECURSIVE StringsOfLen(_)
StringsOfLen(n) ==
    IF n = 0 THEN {<<>>}
    ELSE {Append(t, c) : t \in StringsOfLen(n - 1), c \in Chars}

Descriptions == UNION {StringsOfLen(n) : n \in 0..MaxLen}

\* recipient names of the imported expense rows
RecipientNames == {<<"a", "n">>, <<"N">>, <<"n", "n">>}

\* categories a caller overrides with
NewCategories == {"streaming", "food"}

----------------------------------------------------------------------------
(* Python dicts: a function whose domain is the set of keys present        *)

EmptyDict == [k \in {} |-> 0]

DictGet(d, k, default) == IF k \in DOMAIN d THEN d[k] ELSE default

DictSet(d, k, v) == [x \in (DOMAIN d) \cup {k} |-> IF x = k THEN v ELSE d[x]]

RECURSIVE SumOver(_, _)
SumOver(d, keys) ==
    IF keys = {} THEN 0
    ELSE LET k == CHOOSE x \in keys : TRUE
         IN  d[k] + SumOver(d, keys \ {k})

\* sum(d.values())
SumValues(d) == SumOver(d, DOMAIN d)

----------------------------------------------------------------------------
(* Exact rationals <<n, d>> in lowest terms, d > 0                         *)

Abs(i) == IF i < 0 THEN 0 - i ELSE i

RECURSIVE Gcd(_, _)
Gcd(a, b) == IF b = 0 THEN a ELSE Gcd(b, a % b)

\* n / d, d > 0
Rat(n, d) == LET g == Gcd(Abs(n), d) IN <<n \div g, d \div g>>

FromInt(i) == <<i, 1>>

RatEq(x, y) == x[1] * y[2] = y[1] * x[2]

RatLt(x, y) == x[1] * y[2] < y[1] * x[2]

RatAdd(x, y) == Rat(x[1] * y[2] + y[1] * x[2], x[2] * y[2])

RatSub(x, y) == Rat(x[1] * y[2] - y[1] * x[2], x[2] * y[2])

RatMul(x, y) == Rat(x[1] * y[1], x[2] * y[2])

RatNeg(x) == <<0 - x[1], x[2]>>

RatAbs(x) == IF x[1] < 0 THEN RatNeg(x) ELSE x

----------------------------------------------------------------------------
(* core/calculations.py                                                    *)

\* Person(name, monthly_income=...): both dicts come from default_factory
Person(name, monthly_income) ==
    [name |-> name, monthly_income |-> monthly_income,
     personal_expenses |-> EmptyDict, shared_expenses_paid |-> EmptyDict]

\* Contribution(person_a, person_b)
Contribution(person_a, person_b) ==
    [person_a |-> person_a, person_b |-> person_b, shared_expenses |-> EmptyDict]

\* A call's result: the exception raised ("none" when it returns), the value
\* returned and the object after the call.
Raise(self, exc) == [raised |-> exc, self |-> self]

Return(self) == [raised |-> "none", self |-> self]

\* The person a name resolves to: "a", "b" or "unknown" (the if/elif/else)
ResolvePerson(self, name) ==
    IF name = self.person_a.name THEN "a"
    ELSE IF name = self.person_b.name THEN "b"
    ELSE "unknown"

PersonOf(self, which) == IF which = "a" THEN self.person_a ELSE self.person_b

WithPerson(self, which, p) ==
    IF which = "a" THEN [self EXCEPT !.person_a = p] ELSE [self EXCEPT !.person_b = p]

\* add_expense with `shared_expenses[category] = amount`: the category total
\* is overwritten instead of accumulated
add_expense_overwrites_total(self, category, amount, paid_by, is_shared) ==
    LET which == ResolvePerson(self, paid_by) IN
    IF which = "unknown" THEN Raise(self, "ValueError")
    ELSE
      LET person == PersonOf(self, which) IN
      IF is_shared THEN
        LET p1 == [person EXCEPT !.shared_expenses_paid =
                      DictSet(@, category, DictGet(@, category, 0) + amount)]
            s1 == WithPerson(self, which, p1)
        IN  Return([s1 EXCEPT !.shared_expenses = DictSet(@, category, amount)])
      ELSE
        LET p1 == [person EXCEPT !.personal_expenses =
                      DictSet(@, category, DictGet(@, category, 0) + amount)]
        IN  Return(WithPerson(self, which, p1))

\* add_expense whose second test is a plain `else`: any name that is not
\* person_a's is taken to be person_b's, and nothing is raised
add_expense_else_is_b(self, category, amount, paid_by, is_shared) ==
    LET which == IF paid_by = self.person_a.name THEN "a" ELSE "b"
        person == PersonOf(self, which)
    IN
      IF is_shared THEN
        LET p1 == [person EXCEPT !.shared_expenses_paid =
                      DictSet(@, category, DictGet(@, category, 0) + amount)]
            s1 == WithPerson(self, which, p1)
        IN  Return([s1 EXCEPT !.shared_expenses =
                      DictSet(@, category, DictGet(@, category, 0) + amount)])
      ELSE
        LET p1 == [person EXCEPT !.personal_expenses =
                      DictSet(@, category, DictGet(@, category, 0) + amount)]
        IN  Return(WithPerson(self, which, p1))

\* add_expense that also adds a personal expense to the ledger's category total
add_expense_personal_in_pool(self, category, amount, paid_by, is_shared) ==
    LET which == ResolvePerson(self, paid_by) IN
    IF which = "unknown" THEN Raise(self, "ValueError")
    ELSE
      LET person == PersonOf(self, which)
          p1 == IF is_shared
                  THEN [person EXCEPT !.shared_expenses_paid =
                          DictSet(@, category, DictGet(@, category, 0) + amount)]
                  ELSE [person EXCEPT !.personal_expenses =
                          DictSet(@, category, DictGet(@, category, 0) + amount)]
          s1 == WithPerson(self, which, p1)
      IN  Return([s1 EXCEPT !.shared_expenses =
                    DictSet(@, category, DictGet(@, category, 0) + amount)])

add_expense(self, category, amount, paid_by, is_shared) ==
    LET which == ResolvePerson(self, paid_by) IN
    IF which = "unknown" THEN Raise(self, "ValueError")
    ELSE
      LET person == PersonOf(self, which) IN
      IF is_shared THEN
        LET p1 == [person EXCEPT !.shared_expenses_paid =
                      DictSet(@, category, DictGet(@, category, 0) + amount)]
            s1 == WithPerson(self, which, p1)
        IN  Return([s1 EXCEPT !.shared_expenses =
                      DictSet(@, category, DictGet(@, category, 0) + amount)])
      ELSE
        LET p1 == [person EXCEPT !.personal_expenses =
                      DictSet(@, category, DictGet(@, category, 0) + amount)]
        IN  Return(WithPerson(self, which, p1))

\* The statements of add_expense's shared branch, as the steps a thread
\* switch can separate: each `d[k] = d.get(k, 0) + amount` loads d.get(k, 0)
\* and later stores the sum.
add_expense_load_paid(self, which, category) ==
    DictGet(PersonOf(self, which).shared_expenses_paid, category, 0)

add_expense_store_paid(self, which, category, loaded, amount) ==
    WithPerson(self, which,
               [PersonOf(self, which) EXCEPT !.shared_expenses_paid =
                  DictSet(@, category, loaded + amount)])

add_expense_load_shared(self, category) ==
    DictGet(self.shared_expenses, category, 0)

\* the store of `shared_expenses[category] = amount`: what was loaded is dropped
add_expense_store_shared_drops_loaded(self, category, loaded, amount) ==
    [self EXCEPT !.shared_expenses = DictSet(@, category, amount)]

add_expense_store_shared(self, category, loaded, amount) ==
    [self EXCEPT !.shared_expenses = DictSet(@, category, loaded + amount)]

get_total_shared_expenses(self) == SumValues(self.shared_expenses)

\* get_person_shared_paid whose elif branch sums person_a's payments too
get_person_shared_paid_sums_a(self, name) ==
    IF name = self.person_a.name
      THEN [raised |-> "none", value |-> SumValues(self.person_a.shared_expenses_paid)]
    ELSE IF name = self.person_b.name
      THEN [raised |-> "none", value |-> SumValues(self.person_a.shared_expenses_paid)]
    ELSE [raised |-> "ValueError", value |-> 0]

\* [raised, value]
get_person_shared_paid(self, name) ==
    IF name = self.person_a.name
      THEN [raised |-> "none", value |-> SumValues(self.person_a.shared_expenses_paid)]
    ELSE IF name = self.person_b.name
      THEN [raised |-> "none", value |-> SumValues(self.person_b.shared_expenses_paid)]
    ELSE [raised |-> "ValueError", value |-> 0]

\* calculate_income_ratio with `total_income = person_a.monthly_income`
calculate_income_ratio_total_is_a(person_a, person_b) ==
    LET total_income == person_a.monthly_income IN
    IF total_income = 0 THEN <<Rat(1, 2), Rat(1, 2)>>
    ELSE LET ratio_a == Rat(person_a.monthly_income, total_income)
         IN  <<ratio_a, RatSub(FromInt(1), ratio_a)>>

calculate_income_ratio(person_a, person_b) ==
    LET total_income == person_a.monthly_income + person_b.monthly_income IN
    IF total_income = 0 THEN <<Rat(1, 2), Rat(1, 2)>>
    ELSE LET ratio_a == Rat(person_a.monthly_income, total_income)
         IN  <<ratio_a, RatSub(FromInt(1), ratio_a)>>

\* calculate_fair_shares returning `total_shared * ratio_a` twice
calculate_fair_shares_ratio_a_twice(self) ==
    LET ratio == calculate_income_ratio(self.person_a, self.person_b)
        total_shared == get_total_shared_expenses(self)
    IN  <<RatMul(FromInt(total_shared), ratio[1]), RatMul(FromInt(total_shared), ratio[1])>>

calculate_fair_shares(self) ==
    LET ratio == calculate_income_ratio(self.person_a, self.person_b)
        total_shared == get_total_shared_expenses(self)
    IN  <<RatMul(FromInt(total_shared), ratio[1]), RatMul(FromInt(total_shared), ratio[2])>>

\* f"{amount:.2f}": the amount in cents, rounded to nearest, ties to even
Format2f(x) ==
    LET n == 100 * x[1]
        q == n \div x[2]
        r == n % x[2]
    IN  IF 2 * r < x[2] THEN q
        ELSE IF 2 * r > x[2] THEN q + 1
        ELSE IF q % 2 = 0 THEN q ELSE q + 1

\* _generate_summary with debtor and creditor the wrong way round
generate_summary_debtor_swapped(person_a_name, person_b_name, balance_a) ==
    IF RatLt(RatAbs(balance_a), Rat(1, 100))
      THEN [text |-> "All expenses are perfectly balanced"]
    ELSE
      LET debtor == IF RatLt(FromInt(0), balance_a) THEN person_b_name ELSE person_a_name
          creditor == IF RatLt(FromInt(0), balance_a) THEN person_a_name ELSE person_b_name
          amount == RatAbs(balance_a)
      IN  [text |-> "owes", debtor |-> debtor, creditor |-> creditor,
           cents |-> Format2f(amount)]

generate_summary(person_a_name, person_b_name, balance_a) ==
    IF RatLt(RatAbs(balance_a), Rat(1, 100))
      THEN [text |-> "All expenses are perfectly balanced"]
    ELSE
      LET debtor == IF RatLt(FromInt(0), balance_a) THEN person_a_name ELSE person_b_name
          creditor == IF RatLt(FromInt(0), balance_a) THEN person_b_name ELSE person_a_name
          amount == RatAbs(balance_a)
      IN  [text |-> "owes", debtor |-> debtor, creditor |-> creditor,
           cents |-> Format2f(amount)]

\* generate_monthly_balance with person_b's 'balance': balance_a (the sign lost)
generate_monthly_balance_same_sign(self) ==
    LET fair == calculate_fair_shares(self)
        actual_paid_a == get_person_shared_paid(self, self.person_a.name).value
        actual_paid_b == get_person_shared_paid(self, self.person_b.name).value
        balance_a == RatSub(fair[1], FromInt(actual_paid_a))
    IN  [total_shared_expenses |-> get_total_shared_expenses(self),
         person_a |-> [name |-> self.person_a.name, fair_share |-> fair[1],
                       actual_paid |-> actual_paid_a, balance |-> balance_a],
         person_b |-> [name |-> self.person_b.name, fair_share |-> fair[2],
                       actual_paid |-> actual_paid_b, balance |-> balance_a],
         summary |-> generate_summary(self.person_a.name, self.person_b.name, balance_a)]

generate_monthly_balance(self) ==
    LET fair == calculate_fair_shares(self)
        actual_paid_a == get_person_shared_paid(self, self.person_a.name).value
        actual_paid_b == get_person_shared_paid(self, self.person_b.name).value
        balance_a == RatSub(fair[1], FromInt(actual_paid_a))
    IN  [total_shared_expenses |-> get_total_shared_expenses(self),
         person_a |-> [name |-> self.person_a.name, fair_share |-> fair[1],
                       actual_paid |-> actual_paid_a, balance |-> balance_a],
         person_b |-> [name |-> self.person_b.name, fair_share |-> fair[2],
                       actual_paid |-> actual_paid_b, balance |-> RatNeg(balance_a)],
         summary |-> generate_summary(self.person_a.name, self.person_b.name, balance_a)]

\* a call of generate_monthly_balance that starts the next month: the shared
\* totals are cleared once reported
generate_monthly_balance_call_clears(self) ==
    [self |-> [self EXCEPT !.shared_expenses = EmptyDict],
     value |-> generate_monthly_balance(self)]

\* a call of generate_monthly_balance: the Contribution after the call (the
\* method assigns to nothing of it) and the report returned
generate_monthly_balance_call(self) ==
    [self |-> self, value |-> generate_monthly_balance(self)]

----------------------------------------------------------------------------
(* categorization/transaction_categories.py                                *)
(*                                                                         *)
(* A string is a sequence of characters.  A mapping (a dict, iterated in   *)
(* insertion order) is a sequence of [category, keywords] entries.  A      *)
(* DataFrame is [columns, rows]: rows maps each index label to a row, a    *)
(* function from the column names to cell values.                          *)

\* str.upper(), character by character
UpperChar(c) == IF c = "a" THEN "A" ELSE IF c = "n" THEN "N" ELSE c

Upper(str) == [i \in 1..Len(str) |-> UpperChar(str[i])]

\* `k in d` for strings: k occurs in d as a contiguous run
IsSubstring(k, d) ==
    \E i \in 0..(Len(d) - Len(k)) : SubSeq(d, i + 1, i + Len(k)) = k

\* any(keyword.upper() in description for keyword in keywords)
AnyKeywordIn(keywords, description) ==
    \E j \in 1..Len(keywords) : IsSubstring(Upper(keywords[j]), description)

\* the for loop over mappings.items(), from entry i on
RECURSIVE FirstMatchFrom(_, _, _)
FirstMatchFrom(mapping, i, description) ==
    IF i > Len(mapping) THEN "uncategorized"
    ELSE IF AnyKeywordIn(mapping[i].keywords, description) THEN mapping[i].category
    ELSE FirstMatchFrom(mapping, i + 1, description)

\* categorize_transaction as the code has it, but comparing the keywords as
\* they are written (keyword in description, without .upper())
categorize_transaction_keywords_as_written(description, amount, mapping) ==
    LET d == Upper(description)
        RECURSIVE From(_)
        From(i) ==
            IF i > Len(mapping) THEN "uncategorized"
            ELSE IF \E j \in 1..Len(mapping[i].keywords) :
                      IsSubstring(mapping[i].keywords[j], d)
                   THEN mapping[i].category
            ELSE From(i + 1)
    IN  From(1)

categorize_transaction(description, amount, mapping) ==
    FirstMatchFrom(mapping, 1, Upper(description))

\* a missing cell
NaN == <<"NaN">>

\* str(x) of a cell of the description column
Str(x) == IF x = NaN THEN <<"n", "a", "n">> ELSE x

\* frame[column] = values, values holding one value per row label
WithColumn(frame, column, values) ==
    [columns |-> frame.columns \cup {column},
     rows |-> [i \in DOMAIN frame.rows |->
                 [c \in frame.columns \cup {column} |->
                    IF c = column THEN values[i] ELSE frame.rows[i][c]]]]

\* frame.loc[index, column] = value, column being one of the frame's: the
\* cell is set, and a label the frame does not have is added as a new row
\* whose other cells are missing
LocSet(frame, index, column, value) ==
    [frame EXCEPT !.rows =
       [i \in (DOMAIN frame.rows) \cup {index} |->
          [c \in frame.columns |->
             IF i = index /\ c = column THEN value
             ELSE IF i \in DOMAIN frame.rows THEN frame.rows[i][c]
             ELSE NaN]]]

\* a call on a DataFrame gives [arg, ret]: the caller's frame after the call
\* and the frame returned
categorize_transactions(frame, mapping) ==
    LET result_df == frame   \* df.copy()
        category == [i \in DOMAIN result_df.rows |->
                       categorize_transaction(Str(result_df.rows[i]["recipient_name"]),
                                              0, mapping)]
        with_category == WithColumn(result_df, "category", category)
    IN  [arg |-> frame,
         ret |-> WithColumn(with_category, "auto_categorized",
                            [i \in DOMAIN result_df.rows |-> TRUE])]

\* override_category with `df.loc[index, "auto_categorized"] = True`
override_category_flag_true(frame, index, new_category) ==
    LET copy == frame
    IN  [arg |-> frame,
         ret |-> LocSet(LocSet(copy, index, "category", new_category),
                        index, "auto_categorized", TRUE)]

override_category(frame, index, new_category) ==
    LET copy == frame   \* df.copy()
    IN  [arg |-> frame,
         ret |-> LocSet(LocSet(copy, index, "category", new_category),
                        index, "auto_categorized", FALSE)]

\* JSON values as json.load returns them: a dict is an "object" whose members
\* are in document order, a list an "array", a str a "string", an int a
\* "number"
JsonString(chars) == [type |-> "string", chars |-> chars]
JsonNumber(number) == [type |-> "number", number |-> number]
JsonArray(items) == [type |-> "array", items |-> items]
JsonObject(members) == [type |-> "object", members |-> members]
JsonMember(key, value) == [key |-> key, value |-> value]

\* a dict of category -> list of keyword strings, as a JSON value
CategoryDict(pairs) ==
    JsonObject([i \in 1..Len(pairs) |->
                  JsonMember(pairs[i][1],
                             JsonArray([k \in 1..Len(pairs[i][2]) |->
                                          JsonString(pairs[i][2][k])]))])

DEFAULT_CATEGORY_MAPPINGS ==
    CategoryDict(<<
      <<"food", <<"LIDL", "K-MARKET", "K MARKET", "S-MARKET", "ALEPA", "PRISMA",
                  "CITYMARKET", "SALE", "TOKMANNI", "RUOHONJUURI">> >>,
      <<"transport", <<"HSL", "VR", "FINNAIR", "NORWEGIAN", "TAXI", "TAKSI",
                       "UBER", "BOLT.EU", "VANTAAN TAKSI", "LÄHITAKSI">> >>,
      <<"utilities", <<"HELEN", "VANTAAN ENERGIA", "CARUNA", "HSY", "DNA OYJ",
                       "ELISA", "TELIA", "FORTUM">> >>,
      <<"entertainment", <<"NETFLIX", "SPOTIFY", "HBO", "ELOKUVA", "FINNKINO",
                           "ZYNGA", "STEAM", "SUPERCELL", "NINTENDO", "PLAYSTATION">> >>,
      <<"health", <<"APTEEKKI", "YLIOPISTON APTEEKKI", "MEHILÄINEN", "TERVEYSTALO",
                    "AAVA", "HAMMASLÄÄKÄRI", "FYSIOS", "HOITO">> >>,
      <<"rent", <<"VUOKRA", "VUOKRANANTAJA", "SATO", "LUMO", "KOJAMO", "ASUNTO OY",
                  "RENTAL", "MAANVUOKRA">> >> >>)

\* json.load(f) on a file: JSONDecodeError on text that is not JSON, else the
\* value the text denotes, whatever its shape
json_load(file) ==
    IF file.well_formed
      THEN [raised |-> "none", value |-> file.document]
      ELSE [raised |-> "JSONDecodeError"]

\* config_path is "None" or the path of config_file; [raised, value]
load_category_mappings(config_path, file) ==
    IF config_path # "None" /\ file.exists
      THEN json_load(file)
      ELSE [raised |-> "none", value |-> DEFAULT_CATEGORY_MAPPINGS]

----------------------------------------------------------------------------
(* The ledger's operations as actions.  outcome is the last call made.     *)

LedgerInit ==
    /\ contribution \in { Contribution(Person(na, ia), Person(nb, ib)) :
                            na \in {"Alice"}, nb \in Names, ia \in Incomes, ib \in Incomes }
    /\ outcome = [op |-> "none"]
    /\ n_expenses = 0

AddExpense ==
    \E category \in Categories, amount \in Amounts, paid_by \in CallerNames,
       is_shared \in BOOLEAN :
      LET r == add_expense(contribution, category, amount, paid_by, is_shared) IN
      /\ n_expenses < MaxExpenses
      /\ contribution' = r.self
      /\ outcome' = [op |-> "add_expense", category |-> category, amount |-> amount,
                     paid_by |-> paid_by, is_shared |-> is_shared, raised |-> r.raised]
      /\ n_expenses' = IF r.raised = "none" THEN n_expenses + 1 ELSE n_expenses

GetTotalSharedExpenses ==
    /\ outcome' = [op |-> "get_total_shared_expenses",
                   value |-> get_total_shared_expenses(contribution)]
    /\ UNCHANGED <<contribution, n_expenses>>

GetPersonSharedPaid ==
    \E name \in CallerNames :
      LET r == get_person_shared_paid(contribution, name) IN
      /\ outcome' = [op |-> "get_person_shared_paid", name |-> name,
                     raised |-> r.raised, value |-> r.value]
      /\ UNCHANGED <<contribution, n_expenses>>

CalculateIncomeRatio ==
    /\ outcome' = [op |-> "calculate_income_ratio",
                   value |-> calculate_income_ratio(contribution.person_a,
                                                    contribution.person_b)]
    /\ UNCHANGED <<contribution, n_expenses>>

CalculateFairShares ==
    /\ outcome' = [op |-> "calculate_fair_shares",
                   value |-> calculate_fair_shares(contribution)]
    /\ UNCHANGED <<contribution, n_expenses>>

GenerateMonthlyBalance ==
    LET r == generate_monthly_balance_call(contribution) IN
    /\ contribution' = r.self
    /\ outcome' = [op |-> "generate_monthly_balance", value |-> r.value]
    /\ UNCHANGED n_expenses

\* BalanceSheet._generate_summary called directly, with the ledger's names
GenerateSummary ==
    \E b \in SummaryBalances :
      LET balance_a == Rat(b[1], b[2]) IN
      /\ outcome' = [op |-> "generate_summary",
                     person_a_name |-> contribution.person_a.name,
                     person_b_name |-> contribution.person_b.name,
                     balance_a |-> balance_a,
                     value |-> generate_summary(contribution.person_a.name,
                                                contribution.person_b.name, balance_a)]
      /\ UNCHANGED <<contribution, n_expenses>>

CatIdle ==
    /\ mappings = <<>>
    /\ df = [columns |-> {}, rows |-> [i \in {} |-> 0]]
    /\ result = [op |-> "none"]

\* no configuration file, no concurrent caller
EnvIdle ==
    /\ config_file = [exists |-> FALSE]
    /\ threads = [t \in {} |-> 0]
    /\ discipline = "single_writer"

Init == LedgerInit /\ CatIdle /\ EnvIdle

Next ==
    \/ AddExpense /\ UNCHANGED <<catVars, envVars>>
    \/ GetTotalSharedExpenses /\ UNCHANGED <<catVars, envVars>>
    \/ GetPersonSharedPaid /\ UNCHANGED <<catVars, envVars>>
    \/ CalculateIncomeRatio /\ UNCHANGED <<catVars, envVars>>
    \/ CalculateFairShares /\ UNCHANGED <<catVars, envVars>>
    \/ GenerateMonthlyBalance /\ UNCHANGED <<catVars, envVars>>
    \/ GenerateSummary /\ UNCHANGED <<catVars, envVars>>

Spec == Init /\ [][Next]_vars

----------------------------------------------------------------------------
(* The categoriser's operations as actions                                 *)

LedgerIdle ==
    /\ contribution = Contribution(Person("Alice", 3000), Person("Bob", 2000))
    /\ outcome = [op |-> "none"]
    /\ n_expenses = 0

\* the expenses frame import_bank_report returns: the rows of the statement
\* with a negative amount, under the labels they had in the statement
ImportedFrames ==
    { [columns |-> {"recipient_name"},
       rows |-> [i \in {0, 2} |-> [c \in {"recipient_name"} |->
                                     IF i = 0 THEN r0 ELSE r2]]] :
        r0 \in RecipientNames, r2 \in RecipientNames }

CategorizeTransaction ==
    \E description \in Descriptions :
      /\ result' = [op |-> "categorize_transaction", description |-> description,
                    value |-> categorize_transaction(description, 0, mappings)]
      /\ UNCHANGED <<mappings, df>>

\* df = categorize_transactions(df, mappings)
CategorizeTransactions ==
    LET r == categorize_transactions(df, mappings) IN
    /\ df' = r.ret
    /\ result' = [op |-> "categorize_transactions", arg_before |-> df,
                  arg |-> r.arg, ret |-> r.ret]
    /\ UNCHANGED mappings

\* df = override_category(df, index, new_category), on a categorized frame
OverrideCategory ==
    \E index \in 0..MaxIndex, new_category \in NewCategories :
      LET r == override_category(df, index, new_category) IN
      /\ "category" \in df.columns
      /\ df' = r.ret
      /\ result' = [op |-> "override_category", index |-> index,
                    new_category |-> new_category, arg_before |-> df,
                    arg |-> r.arg, ret |-> r.ret]
      /\ UNCHANGED mappings

\* categorize_transaction on every description, under every mapping
ClassifyInit ==
    /\ LedgerIdle
    /\ EnvIdle
    /\ mappings \in Mappings
    /\ df = [columns |-> {}, rows |-> [i \in {} |-> 0]]
    /\ result = [op |-> "none"]

ClassifyNext == CategorizeTransaction /\ UNCHANGED <<ledgerVars, envVars>>

SpecClassify == ClassifyInit /\ [][ClassifyNext]_vars

\* the mappings that give each category one keyword
FrameMappings ==
    {m \in Mappings : Len(m[1].keywords) = 1 /\ Len(m[2].keywords) = 1}

\* an imported frame, categorized and overridden in any order
FrameInit ==
    /\ LedgerIdle
    /\ EnvIdle
    /\ mappings \in FrameMappings
    /\ df \in ImportedFrames
    /\ result = [op |-> "none"]

FrameNext ==
    \/ CategorizeTransactions /\ UNCHANGED <<ledgerVars, envVars>>
    \/ OverrideCategory /\ UNCHANGED <<ledgerVars, envVars>>

SpecFrame == FrameInit /\ [][FrameNext]_vars

----------------------------------------------------------------------------
(* Loading the category mapping from a configuration file that other       *)
(* programs write                                                          *)

\* keyword lists and mappings a configuration file may hold
ConfiguredKeywords == {<<>>, <<"PIZZA">>, <<"VET", "ZOO">>}
ConfiguredMappings ==
    {CategoryDict(<<>>)}
      \cup {CategoryDict(<< <<"food", k>> >>) : k \in ConfiguredKeywords}
      \cup {CategoryDict(<< <<"food", k1>>, <<"pets", k2>> >>) :
              k1 \in ConfiguredKeywords, k2 \in ConfiguredKeywords}

\* JSON documents that are not a dict of category -> list of strings
OtherDocuments ==
    { JsonArray(<<JsonString("PIZZA")>>),
      JsonNumber(1),
      JsonString("food"),
      JsonObject(<<JsonMember("food", JsonString("PIZZA"))>>),
      JsonObject(<<JsonMember("food", JsonArray(<<JsonNumber(1)>>))>>),
      JsonObject(<<JsonMember("food", JsonObject(<<>>))>>) }

\* the states of the file at config_path: absent, text that is not JSON, or
\* the text of a JSON document
ConfigFiles ==
    {[exists |-> FALSE], [exists |-> TRUE, well_formed |-> FALSE]}
      \cup {[exists |-> TRUE, well_formed |-> TRUE, document |-> j] :
              j \in ConfiguredMappings \cup OtherDocuments}

\* the file is written, replaced or removed between calls
WriteConfigFile ==
    /\ \E file \in ConfigFiles : config_file' = file
    /\ config_file' # config_file
    /\ UNCHANGED <<threads, discipline>>

LoadCategoryMappings ==
    \E config_path \in {"None", "categories.json"} :
      LET r == load_category_mappings(config_path, config_file) IN
      /\ result' = [op |-> "load_category_mappings", config_path |-> config_path,
                    file |-> config_file, raised |-> r.raised,
                    value |-> IF r.raised = "none" THEN r.value ELSE JsonNumber(0)]
      /\ UNCHANGED <<mappings, df>>

LoadInit ==
    /\ LedgerIdle
    /\ EnvIdle
    /\ CatIdle

LoadNext ==
    \/ WriteConfigFile /\ UNCHANGED <<ledgerVars, catVars>>
    \/ LoadCategoryMappings /\ UNCHANGED <<ledgerVars, envVars>>

SpecLoad == LoadInit /\ [][LoadNext]_vars

----------------------------------------------------------------------------
(* add_expense called from several threads on one Contribution.  A thread  *)
(* is [pc, category, amount, person, loaded]: where it is in its call, the *)
(* call's arguments, the person paid_by resolved to and the value its last *)
(* load saw.  Under the "single_writer" discipline the callers take turns; *)
(* under "none" nothing keeps a call from starting while another runs.     *)

Threads == {"t1", "t2"}

IdleThread == [pc |-> "idle", category |-> "", amount |-> 0, person |-> "a", loaded |-> 0]

\* add_expense(category, amount, paid_by, True) is entered: lines 38-43
CallAddExpense(t) ==
    \E category \in Categories, amount \in Amounts, paid_by \in CallerNames :
      LET which == ResolvePerson(contribution, paid_by) IN
      /\ threads[t].pc = "idle"
      /\ n_expenses < MaxExpenses
      /\ discipline = "single_writer" => \A u \in Threads : threads[u].pc = "idle"
      /\ n_expenses' = n_expenses + 1
      /\ threads' = [threads EXCEPT ![t] =
                       IF which = "unknown" THEN IdleThread   \* ValueError
                       ELSE [pc |-> "load_paid", category |-> category,
                             amount |-> amount, person |-> which, loaded |-> 0]]
      /\ UNCHANGED <<contribution, outcome, discipline, config_file>>

\* line 46, right-hand side
LoadPaid(t) ==
    /\ threads[t].pc = "load_paid"
    /\ threads' = [threads EXCEPT ![t].pc = "store_paid",
                                  ![t].loaded = add_expense_load_paid(contribution,
                                                   threads[t].person, threads[t].category)]
    /\ UNCHANGED <<contribution, outcome, n_expenses, discipline, config_file>>

\* line 46, the assignment
StorePaid(t) ==
    /\ threads[t].pc = "store_paid"
    /\ contribution' = add_expense_store_paid(contribution, threads[t].person,
                           threads[t].category, threads[t].loaded, threads[t].amount)
    /\ threads' = [threads EXCEPT ![t].pc = "load_shared", ![t].loaded = 0]
    /\ UNCHANGED <<outcome, n_expenses, discipline, config_file>>

\* line 47, right-hand side
LoadShared(t) ==
    /\ threads[t].pc = "load_shared"
    /\ threads' = [threads EXCEPT ![t].pc = "store_shared",
                                  ![t].loaded = add_expense_load_shared(contribution,
                                                   threads[t].category)]
    /\ UNCHANGED <<contribution, outcome, n_expenses, discipline, config_file>>

\* line 47, the assignment; the call returns
StoreShared(t) ==
    /\ threads[t].pc = "store_shared"
    /\ contribution' = add_expense_store_shared(contribution, threads[t].category,
                           threads[t].loaded, threads[t].amount)
    /\ threads' = [threads EXCEPT ![t] = IdleThread]
    /\ UNCHANGED <<outcome, n_expenses, discipline, config_file>>

ConcInit ==
    /\ LedgerIdle
    /\ CatIdle
    /\ config_file = [exists |-> FALSE]
    /\ threads = [t \in Threads |-> IdleThread]
    /\ discipline \in {"single_writer", "none"}

ConcNext ==
    \/ \E t \in Threads : CallAddExpense(t) /\ UNCHANGED catVars
    \/ \E t \in Threads : LoadPaid(t) /\ UNCHANGED catVars
    \/ \E t \in Threads : StorePaid(t) /\ UNCHANGED catVars
    \/ \E t \in Threads : LoadShared(t) /\ UNCHANGED catVars
    \/ \E t \in Threads : StoreShared(t) /\ UNCHANGED catVars

SpecConc == ConcInit /\ [][ConcNext]_vars

----------------------------------------------------------------------------
(* Claims about the ledger, checked under Spec                             *)

\* The sum of a person's shared_expenses_paid, category by category
PaidIn(person, c) == DictGet(person.shared_expenses_paid, c, 0)

\* C1: after any sequence of add_expense calls on a ledger that started empty,
\* every category's total in shared_expenses is what person_a and person_b
\* paid toward it together (a missing entry counts 0), and the ledger's total
\* is the sum of what both persons paid.
C1_SharedIsSumOfPaid ==
    /\ \A c \in Categories :
         DictGet(contribution.shared_expenses, c, 0)
           = PaidIn(contribution.person_a, c) + PaidIn(contribution.person_b, c)
    /\ get_total_shared_expenses(contribution)
         = SumValues(contribution.person_a.shared_expenses_paid)
           + SumValues(contribution.person_b.shared_expenses_paid)

\* both persons paid toward one category, twice or more in all, next to a
\* personal expense
C1_Witness ==
    /\ n_expenses = MaxExpenses
    /\ \E c \in Categories :
         /\ PaidIn(contribution.person_a, c) > 0
         /\ PaidIn(contribution.person_b, c) > 0
    /\ DOMAIN contribution.person_a.personal_expenses # {}

\* C2: in every generated report the two balances sum to exactly zero.
C2_ZeroSum ==
    outcome.op = "generate_monthly_balance" =>
      RatEq(RatAdd(outcome.value.person_a.balance, outcome.value.person_b.balance),
            FromInt(0))

\* a report in which somebody owes something
C2_Witness ==
    /\ outcome.op = "generate_monthly_balance"
    /\ outcome.value.person_a.balance[1] # 0
    /\ outcome.value.total_shared_expenses > 0

\* C3: add_expense and get_person_shared_paid called with a name that is
\* neither person's raise (ValueError, the code's unknown-person error) and
\* the step leaves the ledger and both persons as they were.
C3_UnknownNameRaisesAndKeepsLedger ==
    [][ (/\ outcome'.op \in {"add_expense", "get_person_shared_paid"}
         /\ (IF outcome'.op = "add_expense" THEN outcome'.paid_by ELSE outcome'.name)
              \notin {contribution.person_a.name, contribution.person_b.name})
        => (/\ outcome'.raised = "ValueError"
            /\ contribution' = contribution) ]_vars

\* a call with an unknown payer raised on a ledger that already holds expenses
C3_Witness ==
    /\ outcome.op = "add_expense"
    /\ outcome.paid_by \notin {contribution.person_a.name, contribution.person_b.name}
    /\ outcome.raised = "ValueError"
    /\ DOMAIN contribution.shared_expenses # {}

\* C4: add_expense with is_shared = false adds amount to the payer's
\* personal_expenses[category] and to nothing else: shared_expenses, both
\* persons' shared_expenses_paid and the other person's personal_expenses are
\* unchanged, and the report generated after the call is the one before it.
C4_PersonalExpenseOnlyTouchesPayer ==
    [][ (/\ outcome'.op = "add_expense"
         /\ outcome'.raised = "none"
         /\ ~outcome'.is_shared)
        => LET a_pays == outcome'.paid_by = contribution.person_a.name
               payer == IF a_pays THEN contribution.person_a ELSE contribution.person_b
               payer1 == IF a_pays THEN contribution'.person_a ELSE contribution'.person_b
               other == IF a_pays THEN contribution.person_b ELSE contribution.person_a
               other1 == IF a_pays THEN contribution'.person_b ELSE contribution'.person_a
           IN  /\ contribution'.shared_expenses = contribution.shared_expenses
               /\ payer1.shared_expenses_paid = payer.shared_expenses_paid
               /\ other1 = other
               /\ \A c \in Categories :
                    DictGet(payer1.personal_expenses, c, 0)
                      = DictGet(payer.personal_expenses, c, 0)
                        + (IF c = outcome'.category THEN outcome'.amount ELSE 0)
               /\ generate_monthly_balance(contribution')
                    = generate_monthly_balance(contribution) ]_vars

\* a personal expense was added to a ledger that holds shared expenses
C4_Witness ==
    /\ outcome.op = "add_expense"
    /\ outcome.raised = "none"
    /\ ~outcome.is_shared
    /\ DOMAIN contribution.shared_expenses # {}
    /\ contribution.person_b.name # contribution.person_a.name
    /\ outcome.paid_by = contribution.person_b.name
    /\ DictGet(contribution.person_b.personal_expenses, outcome.category, 0)
         > outcome.amount

\* C8: calculate_income_ratio returns (0.5, 0.5) when the incomes sum to zero;
\* otherwise ratio_a = income_a / (income_a + income_b) and the two ratios
\* sum to 1.
C8_IncomeRatio ==
    outcome.op = "calculate_income_ratio" =>
      LET income_a == contribution.person_a.monthly_income
          income_b == contribution.person_b.monthly_income
          ratio_a == outcome.value[1]
          ratio_b == outcome.value[2]
      IN  IF income_a + income_b = 0
            THEN outcome.value = <<Rat(1, 2), Rat(1, 2)>>
            ELSE /\ ratio_a[2] > 0
                 /\ ratio_a[1] * (income_a + income_b) = income_a * ratio_a[2]
                 /\ RatEq(RatAdd(ratio_a, ratio_b), FromInt(1))

\* the ratio of incomes 3000 and 2000 was computed: 3/5 and 2/5
C8_Witness ==
    /\ outcome.op = "calculate_income_ratio"
    /\ contribution.person_a.monthly_income = 3000
    /\ contribution.person_b.monthly_income = 2000
    /\ RatEq(outcome.value[1], Rat(3, 5))
    /\ RatEq(outcome.value[2], Rat(2, 5))

\* C9: calculate_fair_shares returns the ledger total times each person's
\* income ratio (one half each when the incomes sum to zero), and the two
\* shares sum to the ledger total.
C9_FairShares ==
    outcome.op = "calculate_fair_shares" =>
      LET income_a == contribution.person_a.monthly_income
          income_b == contribution.person_b.monthly_income
          total == SumValues(contribution.shared_expenses)
          ratio_a == IF income_a + income_b = 0 THEN Rat(1, 2)
                     ELSE Rat(income_a, income_a + income_b)
          ratio_b == IF income_a + income_b = 0 THEN Rat(1, 2)
                     ELSE Rat(income_b, income_a + income_b)
      IN  /\ RatEq(outcome.value[1], RatMul(FromInt(total), ratio_a))
          /\ RatEq(outcome.value[2], RatMul(FromInt(total), ratio_b))
          /\ RatEq(RatAdd(outcome.value[1], outcome.value[2]), FromInt(total))

\* the shares of a total of 1200 were computed for two persons without income
C9_Witness ==
    /\ outcome.op = "calculate_fair_shares"
    /\ contribution.person_a.monthly_income + contribution.person_b.monthly_income = 0
    /\ SumValues(contribution.shared_expenses) = 1200
    /\ RatEq(outcome.value[1], FromInt(600))

\* C10: every generated report gives the ledger's total, each person's
\* actual_paid as the sum of that person's shared_expenses_paid, each
\* fair_share as the total times that person's income ratio,
\* balance_a = fair_share_a - actual_paid_a and balance_b = -balance_a.
C10_ReportMatchesLedger ==
    outcome.op = "generate_monthly_balance" =>
      LET income_a == contribution.person_a.monthly_income
          income_b == contribution.person_b.monthly_income
          total == SumValues(contribution.shared_expenses)
          ratio_a == IF income_a + income_b = 0 THEN Rat(1, 2)
                     ELSE Rat(income_a, income_a + income_b)
          ratio_b == IF income_a + income_b = 0 THEN Rat(1, 2)
                     ELSE Rat(income_b, income_a + income_b)
          report == outcome.value
      IN  /\ report.total_shared_expenses = total
          /\ report.person_a.actual_paid
               = SumValues(contribution.person_a.shared_expenses_paid)
          /\ report.person_b.actual_paid
               = SumValues(contribution.person_b.shared_expenses_paid)
          /\ RatEq(report.person_a.fair_share, RatMul(FromInt(total), ratio_a))
          /\ RatEq(report.person_b.fair_share, RatMul(FromInt(total), ratio_b))
          /\ RatEq(report.person_a.balance,
                   RatSub(report.person_a.fair_share, FromInt(report.person_a.actual_paid)))
          /\ RatEq(report.person_b.balance, RatNeg(report.person_a.balance))

\* what the summary of a balance has to be, for C11: balanced below one
\* cent; otherwise the debtor by the sign of balance_a and the amount
\* abs(balance_a) to the nearest cent
SummaryIsOf(summary, person_a_name, person_b_name, balance_a) ==
    LET n == Abs(balance_a[1])
        d == balance_a[2]
    IN  IF 100 * n < d
          THEN summary = [text |-> "All expenses are perfectly balanced"]
          ELSE /\ summary.text = "owes"
               /\ summary.debtor = (IF balance_a[1] > 0 THEN person_a_name
                                    ELSE person_b_name)
               /\ summary.creditor = (IF balance_a[1] > 0 THEN person_b_name
                                      ELSE person_a_name)
               /\ 2 * Abs(100 * n - summary.cents * d) <= d

\* C11: the summary is "All expenses are perfectly balanced" exactly when
\* abs(balance_a) < 0.01; otherwise it names person_a as debtor if
\* balance_a > 0 and person_b if balance_a < 0, the other person as creditor
\* and abs(balance_a) as the amount; in a report the debtor is the person
\* whose shared payments are below that person's fair share.
C11_SummaryNamesTheDebtor ==
    /\ outcome.op = "generate_summary" =>
         SummaryIsOf(outcome.value, outcome.person_a_name, outcome.person_b_name,
                     outcome.balance_a)
    /\ outcome.op = "generate_monthly_balance" =>
         LET report == outcome.value
             a_owes == report.person_a.balance[1] > 0
             debtor == IF a_owes THEN contribution.person_a ELSE contribution.person_b
             fair_share == IF a_owes THEN report.person_a.fair_share
                           ELSE report.person_b.fair_share
         IN  /\ SummaryIsOf(report.summary, contribution.person_a.name,
                            contribution.person_b.name, report.person_a.balance)
             /\ report.summary.text = "owes" =>
                  RatLt(FromInt(SumValues(debtor.shared_expenses_paid)), fair_share)

\* the report of incomes 3000 and 2000, 1000 paid by Alice and 200 by Bob:
\* "Bob owes Alice 280.00"
C11_Witness ==
    /\ outcome.op = "generate_monthly_balance"
    /\ contribution.person_a.monthly_income = 3000
    /\ contribution.person_b.monthly_income = 2000
    /\ outcome.value.person_a.actual_paid = 1000
    /\ outcome.value.person_b.actual_paid = 200
    /\ outcome.value.summary = [text |-> "owes", debtor |-> "Bob",
                                creditor |-> "Alice", cents |-> 28000]

\* C12: generate_monthly_balance changes nothing in the Contribution or its
\* Persons; a call that follows another with no add_expense between returns
\* the same report; and a report gives the totals of the ledger as it is
\* when the call is made, expenses added since the last report included.
C12_GenerateIsPure ==
    [][ outcome'.op = "generate_monthly_balance"
        => /\ contribution' = contribution
           /\ outcome.op = "generate_monthly_balance" => outcome'.value = outcome.value
           /\ outcome'.value.total_shared_expenses
                = SumValues(contribution.shared_expenses)
           /\ outcome'.value.person_a.actual_paid
                = SumValues(contribution.person_a.shared_expenses_paid) ]_vars

\* a report made of a ledger that holds all the expenses a run adds
C12_Witness ==
    /\ outcome.op = "generate_monthly_balance"
    /\ n_expenses = MaxExpenses
    /\ outcome.value.total_shared_expenses > 1000

\* C13: the two persons of a ledger have distinct names, so a payer's name
\* resolves to exactly one of them.
C13_NamesAreDistinct ==
    contribution.person_a.name # contribution.person_b.name

\* C16: in every report of a ledger whose persons have distinct names, the
\* two actual_paid sum to total_shared_expenses and person_b's balance is
\* fair_share_b - actual_paid_b.
C16_BalanceBAgreesWithDirectComputation ==
    (/\ outcome.op = "generate_monthly_balance"
     /\ contribution.person_a.name # contribution.person_b.name)
    => LET report == outcome.value IN
       /\ report.person_a.actual_paid + report.person_b.actual_paid
            = report.total_shared_expenses
       /\ RatEq(report.person_b.balance,
                RatSub(report.person_b.fair_share, FromInt(report.person_b.actual_paid)))

\* a report of a ledger of Alice and Bob toward which both have paid
C16_Witness ==
    /\ outcome.op = "generate_monthly_balance"
    /\ contribution.person_a.name # contribution.person_b.name
    /\ outcome.value.person_a.actual_paid > 0
    /\ outcome.value.person_b.actual_paid > 0
    /\ outcome.value.person_b.balance[1] # 0

\* no add_expense call is between its first load and its last store
NoCallInProgress == \A t \in DOMAIN threads : threads[t].pc = "idle"

\* C15 (under SpecConc): when the callers of add_expense take turns, then
\* whenever no call is in progress shared_expenses[c] is the sum of the two
\* persons' shared_expenses_paid[c], for every category c.  (Without the
\* discipline the witness is reached: an increment is lost.)
C15_SerialisedCallsKeepTheTotals ==
    (discipline = "single_writer" /\ NoCallInProgress)
    => \A c \in Categories :
         DictGet(contribution.shared_expenses, c, 0)
           = PaidIn(contribution.person_a, c) + PaidIn(contribution.person_b, c)

\* two unsynchronised calls have both returned and shared_expenses holds
\* only one of their amounts
C15_Witness ==
    /\ discipline = "none"
    /\ NoCallInProgress
    /\ n_expenses = 2
    /\ PaidIn(contribution.person_a, "rent") = 1000
    /\ PaidIn(contribution.person_b, "rent") = 200
    /\ DictGet(contribution.shared_expenses, "rent", 0) = 200

----------------------------------------------------------------------------
(* Claims about the categoriser                                            *)

\* C5 (under SpecClassify): categorize_transaction returns the category of
\* the first entry, in the mapping's order, that has a keyword whose upper
\* case occurs in the upper case of the description, whatever the lengths of
\* the keywords, and "uncategorized" when no entry has one.
C5_FirstDeclaredMatchWins ==
    result.op = "categorize_transaction" =>
      LET d == Upper(result.description)
          Hits(i) == {j \in 1..Len(mappings[i].keywords) :
                        IsSubstring(Upper(mappings[i].keywords[j]), d)}
          matching == {i \in 1..Len(mappings) : Hits(i) # {}}
      IN  IF matching = {} THEN result.value = "uncategorized"
          ELSE \E i \in matching :
                 /\ \A k \in matching : i <= k
                 /\ result.value = mappings[i].category

\* both entries match a description written in lower case, the second by a
\* longer keyword than any of the first, and the first entry's category is
\* returned
C5_Witness ==
    /\ result.op = "categorize_transaction"
    /\ result.description = <<"a", "n">>
    /\ mappings[1].keywords = << <<"N">> >>
    /\ mappings[2].keywords = << <<"A", "n">> >>
    /\ result.value = "food"

\* C6 (under SpecFrame): override_category returns a frame whose row at index
\* has the new category and auto_categorized = False, whatever the row held
\* before, and overriding the returned frame the same way returns it again.
C6_OverrideSetsAndIsIdempotent ==
    result.op = "override_category" =>
      /\ result.index \in DOMAIN result.ret.rows
      /\ result.ret.rows[result.index]["category"] = result.new_category
      /\ result.ret.rows[result.index]["auto_categorized"] = FALSE
      /\ override_category(result.ret, result.index, result.new_category).ret = result.ret

\* a row that was categorized automatically, under another category, was
\* overridden
C6_Witness ==
    /\ result.op = "override_category"
    /\ result.index \in DOMAIN result.arg_before.rows
    /\ result.arg_before.rows[result.index]["auto_categorized"] = TRUE
    /\ result.arg_before.rows[result.index]["category"] # result.new_category

\* C7: once a row has auto_categorized = False, a later categorize_transactions
\* over the frame leaves that row's category and flag as they are.
C7_OverrideSurvivesCategorization ==
    [][ result'.op = "categorize_transactions"
        => \A i \in DOMAIN df.rows :
             ("auto_categorized" \in df.columns /\ df.rows[i]["auto_categorized"] = FALSE)
               => /\ df'.rows[i]["category"] = df.rows[i]["category"]
                  /\ df'.rows[i]["auto_categorized"] = FALSE ]_vars

\* C17: for every index, one that labels no row included, override_category
\* returns a frame with as many rows as the frame it was given, in which
\* every row but the one at index is as it was, and the frame it was given
\* is left as it was.
C17_OverrideKeepsTheOtherRows ==
    result.op = "override_category" =>
      /\ Cardinality(DOMAIN result.ret.rows) = Cardinality(DOMAIN result.arg_before.rows)
      /\ \A i \in DOMAIN result.arg_before.rows :
           i # result.index
             => i \in DOMAIN result.ret.rows /\ result.ret.rows[i] = result.arg_before.rows[i]
      /\ result.arg = result.arg_before

\* a JSON value that is a dict of category -> list of keyword strings
IsCategoryMapping(v) ==
    /\ v.type = "object"
    /\ \A i \in 1..Len(v.members) :
         /\ v.members[i].value.type = "array"
         /\ \A k \in 1..Len(v.members[i].value.items) :
              v.members[i].value.items[k].type = "string"

\* C14 (under SpecLoad): load_category_mappings returns the file's mapping
\* when the file holds one, DEFAULT_CATEGORY_MAPPINGS when no path is given
\* or the file does not exist, and fails with ConfigLoadError when the file
\* exists and does not hold a category -> keyword-list mapping; what it
\* returns is always such a mapping.
C14_LoadReturnsAMappingOrFails ==
    result.op = "load_category_mappings" =>
      LET file == result.file
          absent == result.config_path = "None" \/ ~file.exists
          valid == file.well_formed /\ IsCategoryMapping(file.document)
      IN  /\ absent => result.raised = "none" /\ result.value = DEFAULT_CATEGORY_MAPPINGS
          /\ (~absent /\ valid) => result.raised = "none" /\ result.value = file.document
          /\ (~absent /\ ~valid) => result.raised = "ConfigLoadError"
          /\ result.raised = "none" => IsCategoryMapping(result.value)

====
